---- MODULE Spec2Model ----
(***************************************************************************)
(* llvm-remarkutil: the `count` and `diff` subcommands.                    *)
(*                                                                         *)
(* Strings are sequences of character codes, so that trimming, substring   *)
(* search, concatenation and the lexicographic order of std::map keys are  *)
(* computed and not assumed.  std::optional<T> is a sequence of length 0   *)
(* (nullopt) or 1.                                                         *)
(***************************************************************************)
EXTENDS Integers, Sequences, FiniteSets, TLC

VARIABLES
    call,                 \* last call of a pure function: its inputs and result
    cpc,                  \* count: position in collectRemarks
    cpos,                 \* count: index of the next remark the parser yields
    copt,                 \* count: command line options of the count subcommand
    Buffer,               \* count: what the parser yields for the input buffer
    CFilter,              \* count: std::optional<Filters> built by getRemarkFilter
    KeySetIdxMap,         \* count: KeyCounter::KeySetIdxMap
    CountByKeysMap,       \* count: KeyCounter::CountByKeysMap
    CountedByRemarksMap,  \* count: RemarkCounter::CountedByRemarksMap
    COut,                 \* count: what print wrote to the output file
    cret,                 \* count: the Error returned by collectRemarks
    dpc,                  \* diff: position in createRemarkDiff
    dopt,                 \* diff: command line options of the diff subcommand
    StreamA,              \* diff: what parser 1 yielded
    StreamB,              \* diff: what parser 2 yielded
    DFilter,              \* diff: std::optional<Filters> built by getRemarkFilter2
    DebugLoc2RemarkA,     \* diff: MapVector<DebugLocation, SmallVector<RemarkInfo>>
    DebugLoc2RemarkB,     \* diff: the same for file b
    LocsDiff,             \* diff: SmallVector<DiffAtLoc>
    DOut,                 \* diff: what printDiff wrote to the output file
    dret                  \* diff: the Error returned by createRemarkDiff

pureVars  == <<call>>
countVars == <<cpc, cpos, copt, Buffer, CFilter, KeySetIdxMap, CountByKeysMap,
               CountedByRemarksMap, COut, cret>>
diffVars  == <<dpc, dopt, StreamA, StreamB, DFilter, DebugLoc2RemarkA,
               DebugLoc2RemarkB, LocsDiff, DOut, dret>>
vars      == <<call, cpc, cpos, copt, Buffer, CFilter, KeySetIdxMap, CountByKeysMap,
               CountedByRemarksMap, COut, cret, dpc, dopt, StreamA, StreamB,
               DFilter, DebugLoc2RemarkA, DebugLoc2RemarkB, LocsDiff, DOut, dret>>

(***************************************************************************)
(* Bounds of the model.                                                    *)
(***************************************************************************)
MaxStream  == 2   \* remarks in the input buffer of `count`
MaxStreamA == 2   \* remarks parser 1 yields in `diff`
MaxStreamB == 2   \* remarks parser 2 yields in `diff`
MaxArgs    == 2   \* arguments of a remark handed to computeArgDiffAtRemark

(***************************************************************************)
(* Generic helpers on sequences and optionals.                             *)
(***************************************************************************)
None == <<>>
Some(x) == <<x>>
has_value(o) == o # <<>>
ValueOf(o) == o[1]

Min(a, b) == IF a < b THEN a ELSE b

SeqsUpTo(S, n) == UNION {[1..k -> S] : k \in 0..n}

Range(s) == {s[i] : i \in 1..Len(s)}

(***************************************************************************)
(* Strings.                                                                *)
(***************************************************************************)
sEmpty  == <<>>
sColon  == <<58>>                      \* ":"
sTotal  == <<84, 111, 116, 97, 108>>   \* "Total"
sDotStar == <<46, 42>>                 \* ".*"
sBadRe  == <<40>>                      \* "(", which does not compile
sA      == <<97>>                      \* "a"
sB      == <<98>>                      \* "b"
sF      == <<102>>                     \* "f"
sG      == <<103>>                     \* "g"
sK      == <<107>>                     \* "k"
sJ      == <<106>>                     \* "j"
sKPad   == <<32, 107>>                 \* " k"
sN1     == <<110, 49>>                 \* "n1"
sN2     == <<110, 50>>                 \* "n2"
sP1     == <<112, 49>>                 \* "p1"
sP2     == <<112, 50>>                 \* "p2"
sX      == <<120>>                     \* "x"
s1      == <<49>>                      \* "1"
s2      == <<50>>                      \* "2"
s3      == <<51>>                      \* "3"
s5      == <<53>>                      \* "5"

Whitespace == {32, 9, 10, 11, 12, 13}

RECURSIVE LTrim(_)
LTrim(s) == IF s # <<>> /\ s[1] \in Whitespace THEN LTrim(Tail(s)) ELSE s

RECURSIVE RTrim(_)
RTrim(s) ==
    IF s # <<>> /\ s[Len(s)] \in Whitespace
    THEN RTrim(SubSeq(s, 1, Len(s) - 1))
    ELSE s

\* StringRef::trim()
Trim(s) == RTrim(LTrim(s))

\* std::string operator< : lexicographic order on the character codes
RECURSIVE StrLess(_, _)
StrLess(s, t) ==
    IF t = <<>> THEN FALSE
    ELSE IF s = <<>> THEN TRUE
    ELSE IF s[1] < t[1] THEN TRUE
    ELSE IF s[1] > t[1] THEN FALSE
    ELSE StrLess(Tail(s), Tail(t))

IsSubstring(p, s) ==
    \E i \in 0..(Len(s) - Len(p)) : SubSeq(s, i + 1, i + Len(p)) = p

\* llvm::Regex of the patterns the model uses: "(" is the malformed one,
\* ".*" matches everything, a pattern without metacharacters matches when it
\* occurs anywhere in the candidate.
RegexIsValid(p) == p # sBadRe
RegexMatch(p, s) ==
    /\ RegexIsValid(p)
    /\ (p = sDotStar \/ IsSubstring(p, s))

(***************************************************************************)
(* FilterMatcher and Filters (RemarkCounter.h, RemarkUtilHelpers.cpp).     *)
(***************************************************************************)
FilterMatcher(Filter, IsRegex) == [Filter |-> Filter, IsRegex |-> IsRegex]

match(M, StringToMatch) ==
    IF M.IsRegex
    THEN RegexMatch(M.Filter, StringToMatch)
    ELSE M.Filter = Trim(StringToMatch)

\* checkRegex: TRUE when it returns an error
checkRegex(M) == ~RegexIsValid(M.Filter)

regexArgumentsValid(F) ==
    ~ \/ (has_value(F.RemarkNameFilter) /\ ValueOf(F.RemarkNameFilter).IsRegex
            /\ checkRegex(ValueOf(F.RemarkNameFilter)))
      \/ (has_value(F.PassNameFilter) /\ ValueOf(F.PassNameFilter).IsRegex
            /\ checkRegex(ValueOf(F.PassNameFilter)))
      \/ (has_value(F.ArgFilter) /\ ValueOf(F.ArgFilter).IsRegex
            /\ checkRegex(ValueOf(F.ArgFilter)))

\* Expected<Filters>: Some(filter), or None for the invalid-regex error
createRemarkFilter(RemarkNameFilter, PassNameFilter, ArgFilter, RemarkTypeFilter) ==
    LET F == [RemarkNameFilter |-> RemarkNameFilter,
              PassNameFilter   |-> PassNameFilter,
              ArgFilter        |-> ArgFilter,
              RemarkTypeFilter |-> RemarkTypeFilter]
    IN  IF regexArgumentsValid(F) THEN Some(F) ELSE None

\* the loop of lines 50-51: IsMatch |= ArgFilter->match(Arg.Val)
RECURSIVE AnyArgValMatches(_, _)
AnyArgValMatches(M, Args) ==
    IF Args = <<>> THEN FALSE
    ELSE match(M, Args[1].Val) \/ AnyArgValMatches(M, Tail(Args))

filterRemarkNoTypeShortCircuit(F, Remark) ==
    IF has_value(F.RemarkNameFilter)
         /\ ~match(ValueOf(F.RemarkNameFilter), Remark.RemarkName) THEN FALSE
    ELSE IF has_value(F.PassNameFilter)
         /\ ~match(ValueOf(F.PassNameFilter), Remark.PassName) THEN FALSE
    ELSE IF has_value(F.RemarkTypeFilter)
         /\ ValueOf(F.RemarkTypeFilter) # Remark.RemarkType THEN FALSE
    ELSE IF has_value(F.ArgFilter)
         /\ ~AnyArgValMatches(ValueOf(F.ArgFilter), Remark.Args) THEN FALSE
    ELSE TRUE

filterRemark(F, Remark) ==
    IF has_value(F.RemarkNameFilter)
         /\ ~match(ValueOf(F.RemarkNameFilter), Remark.RemarkName) THEN FALSE
    ELSE IF has_value(F.PassNameFilter)
         /\ ~match(ValueOf(F.PassNameFilter), Remark.PassName) THEN FALSE
    ELSE IF has_value(F.RemarkTypeFilter)
         THEN ValueOf(F.RemarkTypeFilter) = Remark.RemarkType
    ELSE IF has_value(F.ArgFilter)
         /\ ~AnyArgValMatches(ValueOf(F.ArgFilter), Remark.Args) THEN FALSE
    ELSE TRUE

(***************************************************************************)
(* Remarks.                                                                *)
(***************************************************************************)
\* remarks::Argument: key, value, the value parsed as an integer when it is
\* one (Argument::getValAsInt), and the optional location attached to it.
Arg(Key, Val, ValAsInt) == [Key |-> Key, Val |-> Val, ValAsInt |-> ValAsInt, Loc |-> None]
ArgAt(Key, Val, ValAsInt, Loc) ==
    [Key |-> Key, Val |-> Val, ValAsInt |-> ValAsInt, Loc |-> Some(Loc)]
isValInt(A) == has_value(A.ValAsInt)
getValAsInt(A) == ValueOf(A.ValAsInt)

RemarkLocation(SourceFilePath, SourceLine, SourceColumn) ==
    [SourceFilePath |-> SourceFilePath, SourceLine |-> SourceLine,
     SourceColumn |-> SourceColumn]

MkRemark(RemarkName, FunctionName, PassName, RemarkType, Loc, Args) ==
    [RemarkName |-> RemarkName, FunctionName |-> FunctionName,
     PassName |-> PassName, RemarkType |-> RemarkType, Loc |-> Loc, Args |-> Args]


(***************************************************************************)
(* The count subcommand (RemarkCounter.h, RemarkCounter.cpp).              *)
(***************************************************************************)
\* the remarks the parser of `count` can yield
CR1 == MkRemark(sN1, sG, sP1, "Passed", Some(RemarkLocation(sB, 1, 1)),
                <<Arg(sK, s2, Some(2))>>)
CR2 == MkRemark(sN1, sF, sP1, "Missed", Some(RemarkLocation(sA, 2, 1)),
                <<Arg(sK, sX, None), Arg(sK, s3, Some(3))>>)
CR3 == MkRemark(sN2, sF, sP1, "Passed", None,
                <<Arg(sJ, s5, Some(5))>>)
CR4 == MkRemark(sN1, sF, sP1, "Missed", None,
                <<Arg(sKPad, s1, Some(1)), Arg(sJ, sX, None)>>)
CR5 == MkRemark(sN1, sG, sP1, "Missed", Some(RemarkLocation(sB, 3, 1)), <<>>)
CountRemarks == {CR1, CR2, CR3, CR4, CR5}

\* what a parser yields for a buffer: the remarks, then end of file or an error
ParsedBuffers ==
    {[Remarks |-> r, End |-> e] :
        r \in SeqsUpTo(CountRemarks, MaxStream), e \in {"EndOfFile", "ParseError"}}

\* the filter options of FILTER_COMMAND_LINE_OPTIONS
NoFilterOpts ==
    [RemarkNameOpt |-> sEmpty, RemarkNameOptRE |-> sEmpty,
     PassNameOpt |-> sEmpty, PassNameOptRE |-> sEmpty,
     RemarkTypeOpt |-> "Failure",
     RemarkFilterArgByOpt |-> sEmpty, RemarkArgFilterOptRE |-> sEmpty]

CountFilterOpts ==
    { NoFilterOpts,
      [NoFilterOpts EXCEPT !.RemarkNameOpt = sN1],
      [NoFilterOpts EXCEPT !.RemarkTypeOpt = "Missed", !.RemarkFilterArgByOpt = s1],
      [NoFilterOpts EXCEPT !.RemarkNameOptRE = sBadRe],
      [NoFilterOpts EXCEPT !.PassNameOptRE = sBadRe],
      [NoFilterOpts EXCEPT !.RemarkArgFilterOptRE = sBadRe] }

CountKeyOpts ==
    { [Keys |-> <<>>, RKeys |-> <<>>],
      [Keys |-> <<sK>>, RKeys |-> <<>>],
      [Keys |-> <<>>, RKeys |-> <<sJ, sK>>],
      [Keys |-> <<>>, RKeys |-> <<sBadRe>>] }

GroupByValues == {"TOTAL", "PER_SOURCE", "PER_FUNCTION", "PER_FUNCTION_WITH_DEBUG_LOC"}

CountOptions ==
    {[CountByOpt |-> c, GroupByOpt |-> g, Keys |-> k.Keys, RKeys |-> k.RKeys,
      Filter |-> f] :
        c \in {"REMARK", "KEYS"}, g \in GroupByValues,
        k \in CountKeyOpts, f \in CountFilterOpts}

\* getRemarkFilter, on the options of the count subcommand
getRemarkFilter(o) ==
    LET RemarkNameFilter ==
            IF o.RemarkNameOpt # sEmpty THEN Some(FilterMatcher(o.RemarkNameOpt, FALSE))
            ELSE IF o.RemarkNameOptRE # sEmpty
                 THEN Some(FilterMatcher(o.RemarkNameOptRE, TRUE))
            ELSE None
        PassNameFilter ==
            IF o.PassNameOpt # sEmpty THEN Some(FilterMatcher(o.PassNameOpt, FALSE))
            ELSE IF o.PassNameOptRE # sEmpty
                 THEN Some(FilterMatcher(o.PassNameOptRE, TRUE))
            ELSE None
        RemarkType ==
            IF o.RemarkTypeOpt # "Failure" THEN Some(o.RemarkTypeOpt) ELSE None
        RemarkArgFilter ==
            IF o.RemarkFilterArgByOpt # sEmpty
            THEN Some(FilterMatcher(o.RemarkFilterArgByOpt, FALSE))
            ELSE IF o.RemarkArgFilterOptRE # sEmpty
                 THEN Some(FilterMatcher(o.RemarkArgFilterOptRE, TRUE))
            ELSE None
    IN  createRemarkFilter(RemarkNameFilter, PassNameFilter, RemarkArgFilter, RemarkType)

\* std::map / MapVector as functions
EmptyMap == [x \in {} |-> 0]
MapInsert(m, k, v) == IF k \in DOMAIN m THEN m ELSE m @@ (k :> v)

\* iteration order of a std::map<std::string, T>: ascending keys
RECURSIVE SortedKeys(_)
SortedKeys(S) ==
    IF S = {} THEN <<>>
    ELSE LET m == CHOOSE x \in S : \A y \in S \ {x} : StrLess(x, y)
         IN  <<m>> \o SortedKeys(S \ {m})

\* lines 252-260 of collectRemarks
KeysVector(o) ==
    IF o.Keys # <<>> THEN [i \in 1..Len(o.Keys) |-> FilterMatcher(o.Keys[i], FALSE)]
    ELSE IF o.RKeys # <<>>
         THEN [i \in 1..Len(o.RKeys) |-> FilterMatcher(o.RKeys[i], TRUE)]
    ELSE <<FilterMatcher(sDotStar, TRUE)>>

getValForKeyOfFirstArg(Key, Remark) ==
    LET Idxs == {i \in 1..Len(Remark.Args) : Remark.Args[i].Key = Key}
    IN  IF Idxs = {} THEN 0
        ELSE LET i == CHOOSE j \in Idxs : \A l \in Idxs : j <= l
             IN  IF isValInt(Remark.Args[i]) THEN getValAsInt(Remark.Args[i]) ELSE 0

getValForKey(Key, Remark) ==
    LET Idxs == {i \in 1..Len(Remark.Args) :
                    Remark.Args[i].Key = Key /\ isValInt(Remark.Args[i])}
    IN  IF Idxs = {} THEN 0
        ELSE getValAsInt(Remark.Args[CHOOSE j \in Idxs : \A l \in Idxs : j <= l])

KeySetHas(KS, Key) == \E i \in 1..Len(KS) : KS[i].Key = Key

KeySetInsertOneBased(KS, Key) ==
    IF KeySetHas(KS, Key) THEN KS ELSE Append(KS, [Key |-> Key, Idx |-> Len(KS) + 1])

\* KeySetIdxMap.insert({Arg.Key, KeySetIdxMap.size()})
KeySetInsert(KS, Key) ==
    IF KeySetHas(KS, Key) THEN KS ELSE Append(KS, [Key |-> Key, Idx |-> Len(KS)])

RECURSIVE InsertMatchingArgsAnyValue(_, _, _)
InsertMatchingArgsAnyValue(KS, Key, Args) ==
    IF Args = <<>> THEN KS
    ELSE InsertMatchingArgsAnyValue(
            IF match(Key, Args[1].Key) THEN KeySetInsert(KS, Args[1].Key) ELSE KS,
            Key, Tail(Args))

\* the loop over Remark.Args of lines 88-90, for one key matcher
RECURSIVE InsertMatchingArgs(_, _, _)
InsertMatchingArgs(KS, Key, Args) ==
    IF Args = <<>> THEN KS
    ELSE InsertMatchingArgs(
            IF match(Key, Args[1].Key) /\ isValInt(Args[1])
            THEN KeySetInsert(KS, Args[1].Key) ELSE KS,
            Key, Tail(Args))

\* the loop over Keys of lines 87-91
RECURSIVE InsertKeysOfRemark(_, _, _)
InsertKeysOfRemark(KS, Keys, Remark) ==
    IF Keys = <<>> THEN KS
    ELSE InsertKeysOfRemark(InsertMatchingArgs(KS, Keys[1], Remark.Args),
                            Tail(Keys), Remark)

getGroupByKeyIgnoringLoc(GroupBy, Remark) ==
    CASE GroupBy = "PER_FUNCTION" -> Some(Remark.FunctionName)
      [] GroupBy = "TOTAL" -> Some(sTotal)
      [] GroupBy = "PER_SOURCE" ->
            Some(IF has_value(Remark.Loc) THEN ValueOf(Remark.Loc).SourceFilePath
                 ELSE sEmpty)
      [] GroupBy = "PER_FUNCTION_WITH_DEBUG_LOC" ->
            Some((IF has_value(Remark.Loc) THEN ValueOf(Remark.Loc).SourceFilePath
                  ELSE sEmpty) \o sColon \o Remark.FunctionName)

getGroupByKey(GroupBy, Remark) ==
    CASE GroupBy = "PER_FUNCTION" -> Some(Remark.FunctionName)
      [] GroupBy = "TOTAL" -> Some(sTotal)
      [] GroupBy \in {"PER_SOURCE", "PER_FUNCTION_WITH_DEBUG_LOC"} ->
            IF ~has_value(Remark.Loc) THEN None
            ELSE IF GroupBy = "PER_FUNCTION_WITH_DEBUG_LOC"
                 THEN Some(ValueOf(Remark.Loc).SourceFilePath \o sColon
                           \o Remark.FunctionName)
            ELSE Some(ValueOf(Remark.Loc).SourceFilePath)

\* the loop of lines 128-131 over the entries of KeySetIdxMap
RECURSIVE AddKeyCounts(_, _, _)
AddKeyCounts(Row, KS, Remark) ==
    IF KS = <<>> THEN Row
    ELSE AddKeyCounts(
            [Row EXCEPT ![KS[1].Idx + 1] = @ + getValForKey(KS[1].Key, Remark)],
            Tail(KS), Remark)

\* KeyCounter::collect
KeyCounterCollect(KS, Map, GroupBy, Remark) ==
    LET Row == [i \in 1..Len(KS) |-> 0]
        GroupByKey == getGroupByKey(GroupBy, Remark)
    IN  IF ~has_value(GroupByKey) THEN Map
        ELSE LET GroupVal == ValueOf(GroupByKey)
                 M1 == MapInsert(Map, GroupVal, Row)
             IN  [M1 EXCEPT ![GroupVal] = AddKeyCounts(@, KS, Remark)]

RemarkCounterCollectNoIncrement(Map, GroupBy, Remark) ==
    LET Key == getGroupByKey(GroupBy, Remark)
    IN  IF ~has_value(Key) THEN Map ELSE MapInsert(Map, ValueOf(Key), 1)

\* RemarkCounter::collect
RemarkCounterCollect(Map, GroupBy, Remark) ==
    LET Key == getGroupByKey(GroupBy, Remark)
    IN  IF ~has_value(Key) THEN Map
        ELSE IF ValueOf(Key) \in DOMAIN Map
             THEN [Map EXCEPT ![ValueOf(Key)] = @ + 1]
             ELSE MapInsert(Map, ValueOf(Key), 1)

\* groupByToStr
groupByToStr(GroupBy) ==
    CASE GroupBy = "PER_FUNCTION" -> "Function"
      [] GroupBy = "PER_FUNCTION_WITH_DEBUG_LOC" -> "FuctionWithDebugLoc"
      [] GroupBy = "PER_SOURCE" -> "Source"
      [] OTHER -> "Total"

\* what KeyCounter::print writes: the header line, then one line per entry of
\* CountByKeysMap; print leaves without OF->keep()
KeyCounterPrint(GroupBy, KS, Map) ==
    [Header |-> <<groupByToStr(GroupBy)>> \o [i \in 1..Len(KS) |-> KS[i].Key],
     Rows   |-> LET Ks == SortedKeys(DOMAIN Map)
                IN  [i \in 1..Len(Ks) |-> <<Ks[i], Map[Ks[i]]>>],
     Keep   |-> FALSE]

RemarkCounterPrintDescending(GroupBy, Map) ==
    [Header |-> <<groupByToStr(GroupBy), "Count">>,
     Rows   |-> LET Ks == SortedKeys(DOMAIN Map)
                IN  [i \in 1..Len(Ks) |->
                        <<Ks[Len(Ks) + 1 - i], Map[Ks[Len(Ks) + 1 - i]]>>],
     Keep   |-> TRUE]

\* what RemarkCounter::print writes
RemarkCounterPrint(GroupBy, Map) ==
    [Header |-> <<groupByToStr(GroupBy), "Count">>,
     Rows   |-> LET Ks == SortedKeys(DOMAIN Map)
                IN  [i \in 1..Len(Ks) |-> <<Ks[i], Map[Ks[i]]>>],
     Keep   |-> TRUE]


(***************************************************************************)
(* collectRemarks, one action per step; the two parsing loops take one     *)
(* step per Parser.next().                                                 *)
(***************************************************************************)
CountIdle ==
    /\ cpc = "idle" /\ cpos = 0 /\ copt = None /\ Buffer = None /\ CFilter = None
    /\ KeySetIdxMap = <<>> /\ CountByKeysMap = EmptyMap
    /\ CountedByRemarksMap = EmptyMap /\ COut = None /\ cret = None

CountStart ==
    /\ cpc = "start" /\ cpos = 0 /\ copt \in {Some(o) : o \in CountOptions}
    /\ Buffer = None /\ CFilter = None
    /\ KeySetIdxMap = <<>> /\ CountByKeysMap = EmptyMap
    /\ CountedByRemarksMap = EmptyMap /\ COut = None /\ cret = None

COpt == ValueOf(copt)
CBuf == ValueOf(Buffer)

\* lines 239-242: the input file opens, or collectRemarks returns the error
GetInputMemoryBuffer ==
    /\ cpc = "start"
    /\ \E b \in ParsedBuffers : Buffer' = Some(b)
    /\ cpc' = "filter"
    /\ UNCHANGED <<cpos, copt, CFilter, KeySetIdxMap, CountByKeysMap,
                   CountedByRemarksMap, COut, cret>>
    /\ UNCHANGED <<pureVars, diffVars>>

GetInputMemoryBufferFails ==
    /\ cpc = "start"
    /\ cpc' = "done"
    /\ cret' = Some("SourceOpenFailure")
    /\ UNCHANGED <<cpos, copt, Buffer, CFilter, KeySetIdxMap, CountByKeysMap,
                   CountedByRemarksMap, COut>>
    /\ UNCHANGED <<pureVars, diffVars>>

\* lines 243-251: the filter is built, then the counter is chosen
GetRemarkFilter ==
    /\ cpc = "filter"
    /\ LET MaybeFilter == getRemarkFilter(COpt.Filter)
       IN  IF ~has_value(MaybeFilter)
           THEN /\ cpc' = "done"
                /\ cret' = Some("InvalidPattern")
                /\ UNCHANGED <<cpos, CFilter>>
           ELSE /\ CFilter' = MaybeFilter
                /\ cpos' = 1
                /\ cpc' = IF COpt.CountByOpt = "REMARK" THEN "collect" ELSE "createKeyCounter"
                /\ UNCHANGED cret
    /\ UNCHANGED <<copt, Buffer, KeySetIdxMap, CountByKeysMap,
                   CountedByRemarksMap, COut>>
    /\ UNCHANGED <<pureVars, diffVars>>

CreateKeyCounterUnchecked ==
    /\ cpc = "createKeyCounter"
    /\ cpc' = "discover"
    /\ UNCHANGED <<cpos, copt, Buffer, CFilter, KeySetIdxMap, CountByKeysMap,
                   CountedByRemarksMap, COut, cret>>
    /\ UNCHANGED <<pureVars, diffVars>>

\* KeyCounter::createKeyCounter up to the call of getAllKeysInRemarks
CreateKeyCounter ==
    /\ cpc = "createKeyCounter"
    /\ LET Keys == KeysVector(COpt)
       IN  IF \E i \in 1..Len(Keys) : Keys[i].IsRegex /\ checkRegex(Keys[i])
           THEN /\ cpc' = "done"
                /\ cret' = Some("InvalidPattern")
           ELSE /\ cpc' = "discover"
                /\ UNCHANGED cret
    /\ UNCHANGED <<cpos, copt, Buffer, CFilter, KeySetIdxMap, CountByKeysMap,
                   CountedByRemarksMap, COut>>
    /\ UNCHANGED <<pureVars, diffVars>>

\* one iteration of the loop of getAllKeysInRemarks
GetAllKeysNext ==
    /\ cpc = "discover"
    /\ cpos <= Len(CBuf.Remarks)
    /\ LET Remark == CBuf.Remarks[cpos]
       IN  KeySetIdxMap' =
               IF filterRemark(ValueOf(CFilter), Remark)
               THEN InsertKeysOfRemark(KeySetIdxMap, KeysVector(COpt), Remark)
               ELSE KeySetIdxMap
    /\ cpos' = cpos + 1
    /\ UNCHANGED <<cpc, copt, Buffer, CFilter, CountByKeysMap,
                   CountedByRemarksMap, COut, cret>>
    /\ UNCHANGED <<pureVars, diffVars>>

\* lines 94-98, and createKeyCounter's return
GetAllKeysEnd ==
    /\ cpc = "discover"
    /\ cpos > Len(CBuf.Remarks)
    /\ IF CBuf.End # "EndOfFile"
       THEN /\ cpc' = "done"
            /\ cret' = Some("StreamParseFailure")
            /\ UNCHANGED cpos
       ELSE /\ cpc' = "collect"
            /\ cpos' = 1
            /\ UNCHANGED cret
    /\ UNCHANGED <<copt, Buffer, CFilter, KeySetIdxMap, CountByKeysMap,
                   CountedByRemarksMap, COut>>
    /\ UNCHANGED <<pureVars, diffVars>>

UseCollectRemarkNextForgettingKey ==
    /\ cpc = "collect"
    /\ cpos <= Len(CBuf.Remarks)
    /\ LET Remark == CBuf.Remarks[cpos]
           Accepted == filterRemark(ValueOf(CFilter), Remark)
       IN  IF COpt.CountByOpt = "REMARK"
           THEN /\ CountedByRemarksMap' =
                       IF Accepted
                       THEN RemarkCounterCollect(CountedByRemarksMap, COpt.GroupByOpt, Remark)
                       ELSE CountedByRemarksMap
                /\ UNCHANGED CountByKeysMap
           ELSE /\ CountByKeysMap' =
                       IF Accepted
                       THEN KeyCounterCollect(KeySetIdxMap, CountByKeysMap,
                                              COpt.GroupByOpt, Remark)
                       ELSE CountByKeysMap
                /\ UNCHANGED CountedByRemarksMap
    /\ KeySetIdxMap' = SubSeq(KeySetIdxMap, 1, Len(KeySetIdxMap) - 1)
    /\ cpos' = cpos + 1
    /\ UNCHANGED <<cpc, copt, Buffer, CFilter, COut, cret>>
    /\ UNCHANGED <<pureVars, diffVars>>

\* one iteration of the loop of useCollectRemark
UseCollectRemarkNext ==
    /\ cpc = "collect"
    /\ cpos <= Len(CBuf.Remarks)
    /\ LET Remark == CBuf.Remarks[cpos]
           Accepted == filterRemark(ValueOf(CFilter), Remark)
       IN  IF COpt.CountByOpt = "REMARK"
           THEN /\ CountedByRemarksMap' =
                       IF Accepted
                       THEN RemarkCounterCollect(CountedByRemarksMap, COpt.GroupByOpt, Remark)
                       ELSE CountedByRemarksMap
                /\ UNCHANGED CountByKeysMap
           ELSE /\ CountByKeysMap' =
                       IF Accepted
                       THEN KeyCounterCollect(KeySetIdxMap, CountByKeysMap,
                                              COpt.GroupByOpt, Remark)
                       ELSE CountByKeysMap
                /\ UNCHANGED CountedByRemarksMap
    /\ cpos' = cpos + 1
    /\ UNCHANGED <<cpc, copt, Buffer, CFilter, KeySetIdxMap, COut, cret>>
    /\ UNCHANGED <<pureVars, diffVars>>

\* lines 228-234: the loop has ended; print, then look at what ended the loop
UseCollectRemarkEnd ==
    /\ cpc = "collect"
    /\ cpos > Len(CBuf.Remarks)
    /\ \E Opens \in BOOLEAN :
          IF ~Opens
          THEN /\ cret' = Some("DestinationOpenFailure")
               /\ UNCHANGED COut
          ELSE /\ COut' = Some(IF COpt.CountByOpt = "REMARK"
                               THEN RemarkCounterPrint(COpt.GroupByOpt, CountedByRemarksMap)
                               ELSE KeyCounterPrint(COpt.GroupByOpt, KeySetIdxMap,
                                                    CountByKeysMap))
               /\ cret' = IF CBuf.End # "EndOfFile"
                          THEN Some("StreamParseFailure") ELSE Some("Success")
    /\ cpc' = "done"
    /\ UNCHANGED <<cpos, copt, Buffer, CFilter, KeySetIdxMap, CountByKeysMap,
                   CountedByRemarksMap>>
    /\ UNCHANGED <<pureVars, diffVars>>


(***************************************************************************)
(* The diff subcommand (RemarkDiff.h, RemarkDiff.cpp).                     *)
(***************************************************************************)
RemarkArgInfo(Key, Val) == [Key |-> Key, Val |-> Val]

\* RemarkInfo(Remark &): the copy keeps neither the remark's location nor the
\* locations of its arguments
RemarkInfo(Remark) ==
    [RemarkName |-> Remark.RemarkName, FunctionName |-> Remark.FunctionName,
     PassName |-> Remark.PassName, RemarkType |-> Remark.RemarkType,
     Args |-> [i \in 1..Len(Remark.Args) |->
                 RemarkArgInfo(Remark.Args[i].Key, Remark.Args[i].Val)]]

hasSameHeader(L, R) ==
    /\ L.RemarkName = R.RemarkName
    /\ L.FunctionName = R.FunctionName
    /\ L.PassName = R.PassName

\* operator==(RemarkArgInfo, RemarkArgInfo)
RemarkArgInfoEq(L, R) == L.Key = R.Key /\ L.Val = R.Val

ArgsEq(L, R) ==
    /\ Len(L) = Len(R)
    /\ \A i \in 1..Len(L) : RemarkArgInfoEq(L[i], R[i])

\* operator==(RemarkInfo, RemarkInfo)
RemarkInfoEq(L, R) ==
    /\ L.RemarkName = R.RemarkName
    /\ L.FunctionName = R.FunctionName
    /\ L.PassName = R.PassName
    /\ L.RemarkType = R.RemarkType
    /\ ArgsEq(L.Args, R.Args)

DebugLocation(SourceFilePath, FunctionName, SourceLine, SourceColumn) ==
    [SourceFilePath |-> SourceFilePath, FunctionName |-> FunctionName,
     SourceLine |-> SourceLine, SourceColumn |-> SourceColumn]

\* MapVector<DebugLocation, SmallVector<RemarkInfo, 4>>: the entries in
\* insertion order
MapVectorHas(MV, Key) == \E i \in 1..Len(MV) : MV[i].Key = Key
MapVectorLookup(MV, Key) ==
    IF MapVectorHas(MV, Key)
    THEN MV[CHOOSE i \in 1..Len(MV) : MV[i].Key = Key].Val
    ELSE <<>>
MapVectorPush(MV, Key, R) ==
    IF MapVectorHas(MV, Key)
    THEN [i \in 1..Len(MV) |->
            IF MV[i].Key = Key THEN [MV[i] EXCEPT !.Val = Append(@, R)] ELSE MV[i]]
    ELSE Append(MV, [Key |-> Key, Val |-> <<R>>])

\* lines 268-280: the key of a remark and its entry in the map
DebugLocOf(Remark) ==
    IF has_value(Remark.Loc)
    THEN DebugLocation(ValueOf(Remark.Loc).SourceFilePath, Remark.FunctionName,
                       ValueOf(Remark.Loc).SourceLine, ValueOf(Remark.Loc).SourceColumn)
    ELSE DebugLocation(sEmpty, Remark.FunctionName, 0, 0)

\* the loop of parseRemarkFile
RECURSIVE parseRemarkFile(_, _, _)
parseRemarkFile(Remarks, MV, Filter) ==
    IF Remarks = <<>> THEN MV
    ELSE parseRemarkFile(
            Tail(Remarks),
            IF ~filterRemark(Filter, Remarks[1]) THEN MV
            ELSE MapVectorPush(MV, DebugLocOf(Remarks[1]), RemarkInfo(Remarks[1])),
            Filter)

\* the loop of lines 297-304, from index i (1-based)
RECURSIVE ArgDiffLoop(_, _, _, _)
ArgDiffLoop(RA, RB, i, D) ==
    IF i > Min(Len(RA.Args), Len(RB.Args)) THEN D
    ELSE ArgDiffLoop(RA, RB, i + 1,
            IF RemarkArgInfoEq(RA.Args[i], RB.Args[i])
            THEN [D EXCEPT !.InBoth = Append(@, RA.Args[i])]
            ELSE [D EXCEPT !.OnlyA = Append(@, RA.Args[i]),
                           !.OnlyB = Append(@, RB.Args[i])])

computeArgDiffAtRemarkByKey(RA, RB) ==
    LET InB(a) == \E j \in 1..Len(RB.Args) : RemarkArgInfoEq(a, RB.Args[j])
        InA(b) == \E j \in 1..Len(RA.Args) : RemarkArgInfoEq(b, RA.Args[j])
    IN  [BaseRemark |-> RA,
         RemarkTypeDiff |-> IF RA.RemarkType # RB.RemarkType
                            THEN Some(<<RA.RemarkType, RB.RemarkType>>) ELSE None,
         OnlyA |-> SelectSeq(RA.Args, LAMBDA a : ~InB(a)),
         OnlyB |-> SelectSeq(RB.Args, LAMBDA b : ~InA(b)),
         InBoth |-> SelectSeq(RA.Args, InB)]

computeArgDiffAtRemarkTypeSwapped(RA, RB) ==
    LET D0 == [BaseRemark |-> RA, RemarkTypeDiff |-> None,
               OnlyA |-> <<>>, OnlyB |-> <<>>, InBoth |-> <<>>]
        D1 == ArgDiffLoop(RA, RB, 1, D0)
        ArgIdx == Min(Len(RA.Args), Len(RB.Args))
        IsARemaining == Len(RA.Args) > Len(RB.Args)
        RemainingArgs == IF IsARemaining THEN RA.Args ELSE RB.Args
        Rest == SubSeq(RemainingArgs, ArgIdx + 1, Len(RemainingArgs))
        D2 == IF IsARemaining
              THEN [D1 EXCEPT !.OnlyA = @ \o Rest]
              ELSE [D1 EXCEPT !.OnlyB = @ \o Rest]
    IN  IF RA.RemarkType # RB.RemarkType
        THEN [D2 EXCEPT !.RemarkTypeDiff = Some(<<RB.RemarkType, RA.RemarkType>>)]
        ELSE D2

computeArgDiffAtRemarkWithoutType(RA, RB) ==
    LET D0 == [BaseRemark |-> RA, RemarkTypeDiff |-> None,
               OnlyA |-> <<>>, OnlyB |-> <<>>, InBoth |-> <<>>]
        D1 == ArgDiffLoop(RA, RB, 1, D0)
        ArgIdx == Min(Len(RA.Args), Len(RB.Args))
        IsARemaining == Len(RA.Args) > Len(RB.Args)
        RemainingArgs == IF IsARemaining THEN RA.Args ELSE RB.Args
        Rest == SubSeq(RemainingArgs, ArgIdx + 1, Len(RemainingArgs))
    IN  IF IsARemaining
        THEN [D1 EXCEPT !.OnlyA = @ \o Rest]
        ELSE [D1 EXCEPT !.OnlyB = @ \o Rest]

computeArgDiffAtRemark(RA, RB) ==
    LET D0 == [BaseRemark |-> RA, RemarkTypeDiff |-> None,
               OnlyA |-> <<>>, OnlyB |-> <<>>, InBoth |-> <<>>]
        D1 == ArgDiffLoop(RA, RB, 1, D0)
        ArgIdx == Min(Len(RA.Args), Len(RB.Args))
        IsARemaining == Len(RA.Args) > Len(RB.Args)
        RemainingArgs == IF IsARemaining THEN RA.Args ELSE RB.Args
        Rest == SubSeq(RemainingArgs, ArgIdx + 1, Len(RemainingArgs))
        D2 == IF IsARemaining
              THEN [D1 EXCEPT !.OnlyA = @ \o Rest]
              ELSE [D1 EXCEPT !.OnlyB = @ \o Rest]
    IN  IF RA.RemarkType # RB.RemarkType
        THEN [D2 EXCEPT !.RemarkTypeDiff = Some(<<RA.RemarkType, RB.RemarkType>>)]
        ELSE D2

ContainsNothing(FoundRemarks, R) == FALSE

\* FoundRemarks.contains(R)
Contains(FoundRemarks, R) == \E x \in FoundRemarks : RemarkInfoEq(x, R)

ExactMatchesSkipped(RemarksA, RemarksB) == {}

\* lines 332-335
ExactMatches(RemarksA, RemarksB) ==
    {RemarksA[i] : i \in {k \in 1..Len(RemarksA) :
                            \E j \in 1..Len(RemarksB) :
                                RemarkInfoEq(RemarksA[k], RemarksB[j])}}

\* the loop over RemarksB of lines 340-348, for one RA; S is the pair
\* <<FoundRemarks, HasSameHeader>>
RECURSIVE HeaderLoopB(_, _, _)
HeaderLoopB(RA, RBs, S) ==
    IF RBs = <<>> THEN S
    ELSE LET RB == RBs[1]
         IN  HeaderLoopB(RA, Tail(RBs),
                IF Contains(S[1], RB) THEN S
                ELSE IF hasSameHeader(RA, RB)
                     THEN <<S[1] \cup {RA, RB}, Append(S[2], <<RA, RB>>)>>
                ELSE S)

\* the loop over RemarksA of lines 336-349
RECURSIVE HeaderLoopA(_, _, _)
HeaderLoopA(RAs, RemarksB, S) ==
    IF RAs = <<>> THEN S
    ELSE HeaderLoopA(Tail(RAs), RemarksB,
            IF Contains(S[1], RAs[1]) THEN S
            ELSE HeaderLoopB(RAs[1], RemarksB, S))

\* static bool OnlyShowArgOrTypeDiffRemarks = false; nothing assigns it
OnlyShowArgOrTypeDiffRemarks == FALSE

\* the loop of lines 361-372
RECURSIVE SameHeaderDiffs(_, _)
SameHeaderDiffs(Pairs, o) ==
    IF Pairs = <<>> THEN <<>>
    ELSE LET RA == Pairs[1][1]
             RB == Pairs[1][2]
             Take ==
                IF ~OnlyShowArgOrTypeDiffRemarks THEN TRUE
                ELSE IF o.ShowRemarkTypeDiffOnly /\ RA.RemarkType # RB.RemarkType
                     THEN TRUE
                ELSE IF o.ShowArgDiffOnly /\ RA.RemarkType = RB.RemarkType
                     THEN TRUE
                ELSE FALSE
         IN  (IF Take THEN <<computeArgDiffAtRemark(RA, RB)>> ELSE <<>>)
             \o SameHeaderDiffs(Tail(Pairs), o)

\* the pairs the header-match pass collects in HasSameHeader
HeaderPairs(RemarksA, RemarksB) ==
    HeaderLoopA(RemarksA, RemarksB, <<ExactMatches(RemarksA, RemarksB), <<>>>>)[2]

\* computeDiffAtLoc with the two flag tests of lines 352-360 replaced by the
\* given values
DiffAtLocWith(RemarksA, RemarksB, Loc, o, ListOnly, SkipPairs) ==
    LET S == HeaderLoopA(RemarksA, RemarksB,
                         <<ExactMatches(RemarksA, RemarksB), <<>>>>)
        NotFound(R) == ~Contains(S[1], R) /\ ListOnly
    IN  [Loc |-> Loc,
         OnlyA |-> SelectSeq(RemarksA, NotFound),
         OnlyB |-> SelectSeq(RemarksB, NotFound),
         HasTheSameHeader |->
            IF SkipPairs THEN <<>> ELSE SameHeaderDiffs(S[2], o)]

computeDiffAtLocListingNothing(RemarksA, RemarksB, Loc, o) ==
    DiffAtLocWith(RemarksA, RemarksB, Loc, o, FALSE, o.ShowOnlyDifferentRemarks)

computeDiffAtLocIgnoringOnlyCommon(RemarksA, RemarksB, Loc, o) ==
    DiffAtLocWith(RemarksA, RemarksB, Loc, o, TRUE, o.ShowOnlyDifferentRemarks)

computeDiffAtLocIgnoringOnlyDifferent(RemarksA, RemarksB, Loc, o) ==
    DiffAtLocWith(RemarksA, RemarksB, Loc, o, ~o.OnlyShowCommonRemarks, FALSE)

computeDiffAtLoc(RemarksA, RemarksB, Loc, o) ==
    LET S == HeaderLoopA(RemarksA, RemarksB,
                         <<ExactMatches(RemarksA, RemarksB), <<>>>>)
        FoundRemarks == S[1]
        HasSameHeader == S[2]
        NotFound(R) == ~Contains(FoundRemarks, R) /\ ~o.OnlyShowCommonRemarks
    IN  [Loc |-> Loc,
         OnlyA |-> SelectSeq(RemarksA, NotFound),
         OnlyB |-> SelectSeq(RemarksB, NotFound),
         HasTheSameHeader |->
            IF o.ShowOnlyDifferentRemarks THEN <<>>
            ELSE SameHeaderDiffs(HasSameHeader, o)]

\* lines 474-478: SetVector<DebugLocation>, the keys of A and then those of B
RECURSIVE SetVectorInsertAll(_, _)
SetVectorInsertAll(SV, MV) ==
    IF MV = <<>> THEN SV
    ELSE SetVectorInsertAll(
            IF \E i \in 1..Len(SV) : SV[i] = MV[1].Key THEN SV
            ELSE Append(SV, MV[1].Key),
            Tail(MV))

DebugLocs(MVA, MVB) == SetVectorInsertAll(SetVectorInsertAll(<<>>, MVA), MVB)

computeDiff(Locs, MVA, MVB, o) ==
    [i \in 1..Len(Locs) |->
        computeDiffAtLoc(MapVectorLookup(MVA, Locs[i]), MapVectorLookup(MVB, Locs[i]),
                         Locs[i], o)]

\* DiffAtLoc::isEmpty
isEmpty(D) == D.OnlyA = <<>> /\ D.OnlyB = <<>> /\ D.HasTheSameHeader = <<>>

\* what printDiff writes: the location diffs that are not empty
printDiff(LD) == SelectSeq(LD, LAMBDA D : ~isEmpty(D))

\* getRemarkFilter2, on the options of the diff subcommand
getRemarkFilter2(o) ==
    LET RemarkNameFilter ==
            IF o.RemarkNameOpt # sEmpty THEN Some(FilterMatcher(o.RemarkNameOpt, FALSE))
            ELSE IF o.RemarkNameOptRE # sEmpty
                 THEN Some(FilterMatcher(o.RemarkNameOptRE, TRUE))
            ELSE None
        PassNameFilter ==
            IF o.PassNameOpt # sEmpty THEN Some(FilterMatcher(o.PassNameOpt, FALSE))
            ELSE IF o.PassNameOptRE # sEmpty
                 THEN Some(FilterMatcher(o.PassNameOptRE, TRUE))
            ELSE None
    IN  createRemarkFilter(RemarkNameFilter, PassNameFilter, None, None)


\* the remarks the parsers of `diff` can yield
DLoc == Some(RemarkLocation(sA, 10, 1))
D1 == MkRemark(sN1, sF, sP1, "Passed", DLoc, <<Arg(sA, s1, Some(1)), Arg(sB, s2, Some(2))>>)
D2 == MkRemark(sN1, sF, sP1, "Passed", DLoc, <<Arg(sA, s1, Some(1)), Arg(sB, s3, Some(3))>>)
D3 == MkRemark(sN1, sF, sP1, "Missed", DLoc, <<Arg(sA, s1, Some(1)), Arg(sB, s2, Some(2))>>)
D4 == MkRemark(sN2, sF, sP1, "Passed", DLoc, <<Arg(sA, s1, Some(1))>>)
D5 == MkRemark(sN1, sF, sP1, "Passed", None, <<Arg(sA, s1, Some(1)), Arg(sB, s2, Some(2))>>)
DiffRemarks == {D1, D2, D3, D4, D5}

\* D1 with a location attached to its first argument
D6 == MkRemark(sN1, sF, sP1, "Passed", DLoc,
               <<ArgAt(sA, s1, Some(1), RemarkLocation(sA, 10, 5)), Arg(sB, s2, Some(2))>>)
StrictRemarks == {D1, D6}

DiffFilterOpts ==
    { NoFilterOpts,
      [NoFilterOpts EXCEPT !.RemarkNameOpt = sN1],
      [NoFilterOpts EXCEPT !.PassNameOptRE = sBadRe],
      [NoFilterOpts EXCEPT !.RemarkTypeOpt = "Missed"],
      [NoFilterOpts EXCEPT !.RemarkFilterArgByOpt = s3] }

DiffFlags(c, d, t, a, f) ==
    [OnlyShowCommonRemarks |-> c, ShowOnlyDifferentRemarks |-> d,
     ShowRemarkTypeDiffOnly |-> t, ShowArgDiffOnly |-> a,
     StrictCompare |-> FALSE, Verbose |-> FALSE, Filter |-> f]

DiffStrictOpts ==
    [DiffFlags(FALSE, FALSE, FALSE, FALSE, NoFilterOpts) EXCEPT !.StrictCompare = TRUE]

\* every setting of the four flags without a filter, every filter without a
\* flag, and use-strict-compare alone
DiffOptions ==
    {DiffFlags(c, d, t, a, NoFilterOpts) :
        c \in BOOLEAN, d \in BOOLEAN, t \in BOOLEAN, a \in BOOLEAN}
    \cup {DiffFlags(FALSE, FALSE, FALSE, FALSE, f) : f \in DiffFilterOpts}
    \cup {DiffStrictOpts}

\* the remarks the parsers yield: under use-strict-compare the inputs are the
\* remarks that differ in the locations of their arguments only
ParserYields(o) == IF o.StrictCompare THEN StrictRemarks ELSE DiffRemarks

(***************************************************************************)
(* createRemarkDiff, one action per call it makes.                         *)
(***************************************************************************)
DiffIdle ==
    /\ dpc = "idle" /\ dopt = None /\ StreamA = None /\ StreamB = None
    /\ DFilter = None /\ DebugLoc2RemarkA = <<>> /\ DebugLoc2RemarkB = <<>>
    /\ LocsDiff = <<>> /\ DOut = None /\ dret = None

DiffStart ==
    /\ dpc = "start" /\ dopt \in {Some(o) : o \in DiffOptions}
    /\ StreamA = None /\ StreamB = None
    /\ DFilter = None /\ DebugLoc2RemarkA = <<>> /\ DebugLoc2RemarkB = <<>>
    /\ LocsDiff = <<>> /\ DOut = None /\ dret = None

DOpt == ValueOf(dopt)

\* lines 448-453: one of the two input files does not open
DiffInputFails ==
    /\ dpc = "start"
    /\ dpc' = "done"
    /\ dret' = Some("SourceOpenFailure")
    /\ UNCHANGED <<dopt, StreamA, StreamB, DFilter, DebugLoc2RemarkA,
                   DebugLoc2RemarkB, LocsDiff, DOut>>
    /\ UNCHANGED <<pureVars, countVars>>

\* lines 454-466: both files open, the parsers and the filter are created
GetRemarkFilter2 ==
    /\ dpc = "start"
    /\ LET MaybeFilter == getRemarkFilter2(DOpt.Filter)
       IN  IF ~has_value(MaybeFilter)
           THEN /\ dpc' = "done"
                /\ dret' = Some("InvalidPattern")
                /\ UNCHANGED DFilter
           ELSE /\ DFilter' = MaybeFilter
                /\ dpc' = "parseA"
                /\ UNCHANGED dret
    /\ UNCHANGED <<dopt, StreamA, StreamB, DebugLoc2RemarkA, DebugLoc2RemarkB,
                   LocsDiff, DOut>>
    /\ UNCHANGED <<pureVars, countVars>>

\* line 470: parseRemarkFile on parser 1; the remarks the parser yields are
\* the input
ParseRemarkFileA ==
    /\ dpc = "parseA"
    /\ \E r \in SeqsUpTo(ParserYields(DOpt), MaxStreamA),
          e \in {"EndOfFile", "ParseError"} :
          /\ StreamA' = Some([Remarks |-> r, End |-> e])
          /\ DebugLoc2RemarkA' = parseRemarkFile(r, <<>>, ValueOf(DFilter))
          /\ IF e # "EndOfFile"
             THEN dpc' = "done" /\ dret' = Some("StreamParseFailure")
             ELSE dpc' = "parseB" /\ UNCHANGED dret
    /\ UNCHANGED <<dopt, StreamB, DFilter, DebugLoc2RemarkB, LocsDiff, DOut>>
    /\ UNCHANGED <<pureVars, countVars>>

\* line 472: parseRemarkFile on parser 2
ParseRemarkFileB ==
    /\ dpc = "parseB"
    /\ \E r \in SeqsUpTo(ParserYields(DOpt), MaxStreamB),
          e \in {"EndOfFile", "ParseError"} :
          /\ StreamB' = Some([Remarks |-> r, End |-> e])
          /\ DebugLoc2RemarkB' = parseRemarkFile(r, <<>>, ValueOf(DFilter))
          /\ IF e # "EndOfFile"
             THEN dpc' = "done" /\ dret' = Some("StreamParseFailure")
             ELSE dpc' = "compute" /\ UNCHANGED dret
    /\ UNCHANGED <<dopt, StreamA, DFilter, DebugLoc2RemarkA, LocsDiff, DOut>>
    /\ UNCHANGED <<pureVars, countVars>>

\* lines 474-480
ComputeDiff ==
    /\ dpc = "compute"
    /\ LocsDiff' = computeDiff(DebugLocs(DebugLoc2RemarkA, DebugLoc2RemarkB),
                               DebugLoc2RemarkA, DebugLoc2RemarkB, DOpt)
    /\ dpc' = "print"
    /\ UNCHANGED <<dopt, StreamA, StreamB, DFilter, DebugLoc2RemarkA,
                   DebugLoc2RemarkB, DOut, dret>>
    /\ UNCHANGED <<pureVars, countVars>>

\* lines 481-483
PrintDiff ==
    /\ dpc = "print"
    /\ \E Opens \in BOOLEAN :
          IF ~Opens
          THEN dret' = Some("DestinationOpenFailure") /\ UNCHANGED DOut
          ELSE DOut' = Some(printDiff(LocsDiff)) /\ dret' = Some("Success")
    /\ dpc' = "done"
    /\ UNCHANGED <<dopt, StreamA, StreamB, DFilter, DebugLoc2RemarkA,
                   DebugLoc2RemarkB, LocsDiff>>
    /\ UNCHANGED <<pureVars, countVars>>

(***************************************************************************)
(* Calls of the pure functions on inputs drawn from bounded sets.          *)
(***************************************************************************)
MatcherChoices(lit, re) == {None, Some(FilterMatcher(lit, FALSE)), Some(FilterMatcher(re, TRUE))}

FilterInputs ==
    {[RemarkNameFilter |-> n, PassNameFilter |-> p, ArgFilter |-> a,
      RemarkTypeFilter |-> t] :
        n \in MatcherChoices(sN1, s2), p \in MatcherChoices(sP1, s2),
        a \in MatcherChoices(sX, s1), t \in {None, Some("Missed"), Some("Passed")}}

FilterRemarkInputs ==
    {MkRemark(n, sF, p, t, None, a) :
        n \in {sN1, sN2}, p \in {sP1, sP2}, t \in {"Missed", "Passed"},
        a \in {<<>>, <<Arg(sK, sX, None)>>, <<Arg(sK, s1, Some(1))>>,
               <<Arg(sK, s2, Some(2)), Arg(sJ, sX, None)>>}}

FilterRemarkCall ==
    /\ call = None
    /\ \E F \in FilterInputs, R \in FilterRemarkInputs :
          call' = Some([fn |-> "filterRemark", Filter |-> F, Remark |-> R,
                        ret |-> filterRemark(F, R)])
    /\ UNCHANGED <<countVars, diffVars>>

ArgInputs == {RemarkArgInfo(sA, s1), RemarkArgInfo(sB, s2), RemarkArgInfo(sB, s3)}

ArgDiffRemarkInputs ==
    {[RemarkName |-> sN1, FunctionName |-> sF, PassName |-> sP1,
      RemarkType |-> t, Args |-> a] :
        t \in {"Missed", "Passed"}, a \in SeqsUpTo(ArgInputs, MaxArgs)}

ComputeArgDiffAtRemarkCall ==
    /\ call = None
    /\ \E RA \in ArgDiffRemarkInputs, RB \in ArgDiffRemarkInputs :
          call' = Some([fn |-> "computeArgDiffAtRemark", RA |-> RA, RB |-> RB,
                        ret |-> computeArgDiffAtRemark(RA, RB)])
    /\ UNCHANGED <<countVars, diffVars>>

(***************************************************************************)
(* Specifications.                                                         *)
(***************************************************************************)
InitCount == CountStart /\ DiffIdle /\ call = None
NextCount ==
    \/ GetInputMemoryBuffer
    \/ GetInputMemoryBufferFails
    \/ GetRemarkFilter
    \/ CreateKeyCounter
    \/ GetAllKeysNext
    \/ GetAllKeysEnd
    \/ UseCollectRemarkNext
    \/ UseCollectRemarkEnd
SpecCount == InitCount /\ [][NextCount]_vars

InitDiff == DiffStart /\ CountIdle /\ call = None
NextDiff ==
    \/ DiffInputFails
    \/ GetRemarkFilter2
    \/ ParseRemarkFileA
    \/ ParseRemarkFileB
    \/ ComputeDiff
    \/ PrintDiff
SpecDiff == InitDiff /\ [][NextDiff]_vars

InitPure == CountIdle /\ DiffIdle /\ call = None
SpecFilter == InitPure /\ [][FilterRemarkCall]_vars
SpecArgDiff == InitPure /\ [][ComputeArgDiffAtRemarkCall]_vars


(***************************************************************************)
(* Properties.                                                             *)
(***************************************************************************)
CountRan == has_value(copt) /\ has_value(Buffer) /\ has_value(CFilter)

\* the remarks the collecting loop of useCollectRemark has gone through
Collected == SubSeq(CBuf.Remarks, 1, cpos - 1)

\* C1: when the remark source returns an error other than end of stream, the
\* operation returns that error and nothing is written to the output: neither
\* the counter's print nor printDiff has run.
C1_NoReportAfterParseError ==
    /\ cret = Some("StreamParseFailure") => COut = None
    /\ dret = Some("StreamParseFailure") => DOut = None

\* the remarks of the two files at the location of the i-th location diff
RemarksAAt(i) == MapVectorLookup(DebugLoc2RemarkA, LocsDiff[i].Loc)
RemarksBAt(i) == MapVectorLookup(DebugLoc2RemarkB, LocsDiff[i].Loc)

\* C2: at every location the header-match pass puts each remark of A and each
\* remark of B in at most one pair, so the pairs of a location are never more
\* than min(number of A remarks, number of B remarks) there.
C2_PairsAtMostMin ==
    \A i \in 1..Len(LocsDiff) :
        /\ Len(HeaderPairs(RemarksAAt(i), RemarksBAt(i)))
              <= Min(Len(RemarksAAt(i)), Len(RemarksBAt(i)))
        /\ Len(LocsDiff[i].HasTheSameHeader)
              <= Min(Len(RemarksAAt(i)), Len(RemarksBAt(i)))

\* C3: with show-remark-type-diff-only a pair is reported only if the two types
\* differ; with show-arg-diff-only only if the types are equal and the
\* arguments differ; with neither flag every header-matched pair is reported.
C3_PairInclusionFollowsFlags ==
    \A i \in 1..Len(LocsDiff) :
        /\ DOpt.ShowRemarkTypeDiffOnly =>
              \A j \in 1..Len(LocsDiff[i].HasTheSameHeader) :
                  has_value(LocsDiff[i].HasTheSameHeader[j].RemarkTypeDiff)
        /\ DOpt.ShowArgDiffOnly =>
              \A j \in 1..Len(LocsDiff[i].HasTheSameHeader) :
                  LET D == LocsDiff[i].HasTheSameHeader[j]
                  IN  ~has_value(D.RemarkTypeDiff) /\ (D.OnlyA # <<>> \/ D.OnlyB # <<>>)
        /\ (~DOpt.ShowRemarkTypeDiffOnly /\ ~DOpt.ShowArgDiffOnly
              /\ ~DOpt.ShowOnlyDifferentRemarks) =>
              Len(LocsDiff[i].HasTheSameHeader)
                  = Len(HeaderPairs(RemarksAAt(i), RemarksBAt(i)))

\* both parsers yielded the same remarks and computeDiff has run
SelfDiffed ==
    /\ dpc \in {"print", "done"}
    /\ has_value(StreamA) /\ has_value(StreamB)
    /\ ValueOf(StreamA) = ValueOf(StreamB)
    /\ ValueOf(StreamB).End = "EndOfFile"

\* C4: diffing a stream against an identical copy of itself gives, under every
\* setting of the flags, a diff whose OnlyA, OnlyB and HasTheSameHeader are
\* empty at every location; printDiff then writes no location.
C4_SelfDiffIsEmpty ==
    SelfDiffed =>
        /\ Len(LocsDiff) = Len(DebugLoc2RemarkA)
        /\ \A i \in 1..Len(LocsDiff) : isEmpty(LocsDiff[i])
        /\ has_value(DOut) => ValueOf(DOut) = <<>>

C4_Witness ==
    /\ SelfDiffed
    /\ Len(ValueOf(StreamA).Remarks) = 2
    /\ Len(LocsDiff) = 2
    /\ DOut = Some(<<>>)

\* the existence counter is in use and its collecting loop has started
ExistenceCounting ==
    /\ CountRan
    /\ COpt.CountByOpt = "REMARK"
    /\ cpc \in {"collect", "done"}

\* the collected remarks the filter accepts and whose group key is g
CountedIn(g) ==
    {i \in 1..Len(Collected) :
        /\ filterRemark(ValueOf(CFilter), Collected[i])
        /\ getGroupByKey(COpt.GroupByOpt, Collected[i]) = Some(g)}

\* the collected remarks the filter accepts and that have a group key
Counted ==
    {i \in 1..Len(Collected) :
        /\ filterRemark(ValueOf(CFilter), Collected[i])
        /\ has_value(getGroupByKey(COpt.GroupByOpt, Collected[i]))}

RECURSIVE SumOver(_, _)
SumOver(Map, Keys) ==
    IF Keys = {} THEN 0
    ELSE LET k == CHOOSE x \in Keys : TRUE
         IN  Map[k] + SumOver(Map, Keys \ {k})

\* C5: after any sequence of remarks has gone through the filter into the
\* existence counter, the counts of all groups add up to the number of remarks
\* the filter accepted and that have a group key; each group's count is the
\* number of such remarks with that key.
C5_CountsSumToAccepted ==
    ExistenceCounting =>
        /\ SumOver(CountedByRemarksMap, DOMAIN CountedByRemarksMap) = Cardinality(Counted)
        /\ \A g \in DOMAIN CountedByRemarksMap :
              CountedByRemarksMap[g] = Cardinality(CountedIn(g))
        /\ \A i \in Counted :
              ValueOf(getGroupByKey(COpt.GroupByOpt, Collected[i]))
                  \in DOMAIN CountedByRemarksMap

C5_Witness ==
    /\ ExistenceCounting
    /\ cret = Some("Success")
    /\ Len(Collected) = 2
    /\ Cardinality(Counted) = 1
    /\ \E g \in DOMAIN CountedByRemarksMap : CountedByRemarksMap[g] = 1


\* the existence counter has printed its report
ExistenceReported ==
    /\ ExistenceCounting
    /\ cpc = "done"
    /\ has_value(COut)

ReportKeys == [i \in 1..Len(ValueOf(COut).Rows) |-> ValueOf(COut).Rows[i][1]]

\* the group keys of the counted remarks, in the order in which each was
\* first collected
RECURSIVE FirstSeen(_, _)
FirstSeen(Remarks, Seen) ==
    IF Remarks = <<>> THEN Seen
    ELSE LET k == getGroupByKey(COpt.GroupByOpt, Remarks[1])
         IN  FirstSeen(Tail(Remarks),
                IF /\ filterRemark(ValueOf(CFilter), Remarks[1])
                   /\ has_value(k)
                   /\ ValueOf(k) \notin Range(Seen)
                THEN Append(Seen, ValueOf(k)) ELSE Seen)

\* C6, as stated: the rows of the existence counter's report are in first-seen
\* order of their group keys.
C6_RowsInFirstSeenOrder ==
    ExistenceReported => ReportKeys = FirstSeen(Collected, <<>>)

\* C6, amended: the report has one row per collected group key, with that
\* key's count, and the rows are in ascending lexicographic order of the group
\* keys (the iteration order of std::map), whatever the order of collection.
C6_RowsInAscendingKeyOrder ==
    ExistenceReported =>
        /\ Range(ReportKeys) = Range(FirstSeen(Collected, <<>>))
        /\ Len(ReportKeys) = Len(FirstSeen(Collected, <<>>))
        /\ \A i \in 1..Len(ReportKeys) :
              ValueOf(COut).Rows[i][2] = Cardinality(CountedIn(ReportKeys[i]))
        /\ \A i \in 1..Len(ReportKeys), j \in 1..Len(ReportKeys) :
              i < j => StrLess(ReportKeys[i], ReportKeys[j])

C6_Witness ==
    /\ ExistenceReported
    /\ Len(ReportKeys) = 2
    /\ ReportKeys # FirstSeen(Collected, <<>>)

\* the key counter's discovery pass has completed
Discovered ==
    /\ CountRan
    /\ COpt.CountByOpt = "KEYS"
    /\ \/ cpc = "collect"
       \/ cpc = "done" /\ cret \in {Some("Success"), Some("DestinationOpenFailure")}

UniverseKeys == {KeySetIdxMap[i].Key : i \in 1..Len(KeySetIdxMap)}

\* C7: after discovery the key universe is exactly the set of the argument keys
\* that, in some remark the filter accepts, match a configured key matcher and
\* carry an integer value; a remark without group key contributes its keys, a
\* remark the filter rejects contributes none.
C7_UniverseIsMatchingIntKeys ==
    Discovered =>
        /\ UniverseKeys =
              {a.Key : a \in
                  {a \in UNION {Range(CBuf.Remarks[i].Args) :
                                  i \in {j \in 1..Len(CBuf.Remarks) :
                                           filterRemark(ValueOf(CFilter), CBuf.Remarks[j])}} :
                      /\ isValInt(a)
                      /\ \E m \in Range(KeysVector(COpt)) : match(m, a.Key)}}
        /\ Cardinality(UniverseKeys) = Len(KeySetIdxMap)

C7_Witness ==
    /\ Discovered
    /\ COpt.GroupByOpt = "PER_SOURCE"
    /\ COpt.Filter.RemarkNameOpt = sN1
    /\ CBuf.Remarks = <<CR3, CR4>>
    /\ COpt.Keys = <<sK>>
    /\ UniverseKeys = {sKPad}

\* the key counter's collecting loop has started
KeyCounting == Discovered /\ cpos >= 1

\* the value of the first argument with the key, 0 when the remark has no
\* argument with the key or when that argument is not an integer
RECURSIVE ValueOfArgWithKey(_, _)
ValueOfArgWithKey(Key, Args) ==
    IF Args = <<>> THEN 0
    ELSE IF Args[1].Key = Key
         THEN (IF isValInt(Args[1]) THEN getValAsInt(Args[1]) ELSE 0)
    ELSE ValueOfArgWithKey(Key, Tail(Args))

\* the value of the first argument that has the key and is an integer, 0 when
\* the remark has no such argument
RECURSIVE ValueOfFirstIntArgWithKey(_, _)
ValueOfFirstIntArgWithKey(Key, Args) ==
    IF Args = <<>> THEN 0
    ELSE IF Args[1].Key = Key /\ isValInt(Args[1]) THEN getValAsInt(Args[1])
    ELSE ValueOfFirstIntArgWithKey(Key, Tail(Args))

\* the sum of Val(key, args) over the counted remarks of group g, from index i
RECURSIVE GroupSum(_, _, _, _)
GroupSum(Val(_, _), Key, g, i) ==
    IF i > Len(Collected) THEN 0
    ELSE (IF i \in CountedIn(g) THEN Val(Key, Collected[i].Args) ELSE 0)
         + GroupSum(Val, Key, g, i + 1)

GroupsCounted ==
    {ValueOf(getGroupByKey(COpt.GroupByOpt, Collected[i])) : i \in Counted}

SlotsAreGroupSums(Val(_, _)) ==
    /\ DOMAIN CountByKeysMap = GroupsCounted
    /\ \A g \in DOMAIN CountByKeysMap :
          /\ Len(CountByKeysMap[g]) = Len(KeySetIdxMap)
          /\ \A i \in 1..Len(KeySetIdxMap) :
                CountByKeysMap[g][KeySetIdxMap[i].Idx + 1]
                    = GroupSum(Val, KeySetIdxMap[i].Key, g, 1)

\* C8, as stated: every slot (g, k) is the sum over the counted remarks of
\* group g of the remark's value for k, which is 0 when the remark has no
\* argument with key k or when its argument with that key is not numeric.
C8_SlotIsSumOfArgWithKey ==
    KeyCounting => SlotsAreGroupSums(ValueOfArgWithKey)

\* C8, amended: every slot (g, k) is the sum over the counted remarks of group
\* g of the remark's value for k, which is the integer value of the remark's
\* first argument that has key k and a numeric value, and 0 when the remark
\* has no such argument; the groups with a row are exactly the groups of the
\* counted remarks, so collecting a remark changes no other group's row.
C8_SlotIsSumOfFirstIntArgWithKey ==
    KeyCounting => SlotsAreGroupSums(ValueOfFirstIntArgWithKey)

C8_Witness ==
    /\ KeyCounting
    /\ cret = Some("Success")
    /\ COpt.GroupByOpt = "PER_FUNCTION"
    /\ CBuf.Remarks = <<CR2, CR1>>
    /\ UniverseKeys = {sK}
    /\ CountByKeysMap = (sF :> <<3>>) @@ (sG :> <<2>>)


FilterCalled == has_value(call) /\ ValueOf(call).fn = "filterRemark"

ArgDiffCalled == has_value(call) /\ ValueOf(call).fn = "computeArgDiffAtRemark"

\* the entries of s at the indices of I, in order
RECURSIVE AtIndices(_, _, _)
AtIndices(s, I, i) ==
    IF i > Len(s) THEN <<>>
    ELSE (IF i \in I THEN <<s[i]>> ELSE <<>>) \o AtIndices(s, I, i + 1)

\* C10: the arguments of a pair are compared by position: below the shorter
\* length, equal entries go to InBoth and unequal ones to OnlyA and OnlyB; the
\* entries of the longer list from the shorter length on go to its side's
\* list.  So |InBoth| + |OnlyA| = |RA.Args| and |InBoth| + |OnlyB| = |RB.Args|,
\* and [(a,1),(b,2)] against [(a,1),(b,3)] gives InBoth = [(a,1)],
\* OnlyA = [(b,2)], OnlyB = [(b,3)].
C10_ArgsComparedByPosition ==
    ArgDiffCalled =>
        LET A == ValueOf(call).RA.Args
            B == ValueOf(call).RB.Args
            D == ValueOf(call).ret
            n == Min(Len(A), Len(B))
            Same == {i \in 1..n : A[i] = B[i]}
        IN  /\ D.InBoth = AtIndices(A, Same, 1)
            /\ D.OnlyA = AtIndices(A, (1..Len(A)) \ Same, 1)
            /\ D.OnlyB = AtIndices(B, (1..Len(B)) \ Same, 1)
            /\ Len(D.InBoth) + Len(D.OnlyA) = Len(A)
            /\ Len(D.InBoth) + Len(D.OnlyB) = Len(B)
            /\ (A = <<RemarkArgInfo(sA, s1), RemarkArgInfo(sB, s2)>>
                  /\ B = <<RemarkArgInfo(sA, s1), RemarkArgInfo(sB, s3)>>) =>
                  /\ D.InBoth = <<RemarkArgInfo(sA, s1)>>
                  /\ D.OnlyA = <<RemarkArgInfo(sB, s2)>>
                  /\ D.OnlyB = <<RemarkArgInfo(sB, s3)>>

C10_Witness ==
    /\ ArgDiffCalled
    /\ ValueOf(call).RA.Args = <<RemarkArgInfo(sA, s1), RemarkArgInfo(sB, s2)>>
    /\ ValueOf(call).RB.Args = <<RemarkArgInfo(sA, s1), RemarkArgInfo(sB, s3)>>
    /\ ValueOf(call).ret.InBoth = <<RemarkArgInfo(sA, s1)>>
    /\ ValueOf(call).ret.OnlyA = <<RemarkArgInfo(sB, s2)>>
    /\ ValueOf(call).ret.OnlyB = <<RemarkArgInfo(sB, s3)>>

\* computeDiff has run on what the two parsers yielded
DiffComputed ==
    /\ dpc \in {"print", "done"}
    /\ has_value(StreamA) /\ has_value(StreamB)
    /\ ValueOf(StreamB).End = "EndOfFile"

NoDiffFlag ==
    /\ ~DOpt.OnlyShowCommonRemarks /\ ~DOpt.ShowOnlyDifferentRemarks
    /\ ~DOpt.ShowRemarkTypeDiffOnly /\ ~DOpt.ShowArgDiffOnly

\* C11: with no diff flag set, a location where A holds one remark and B holds
\* one remark with the same header and the same arguments but another type has
\* exactly one pair, whose RemarkTypeDiff is (type of A, type of B) and whose
\* OnlyA and OnlyB argument lists are empty, and the location's OnlyA and OnlyB
\* are empty; and every pair reported at any location has a RemarkTypeDiff
\* exactly when the types of its two remarks differ.
C11_TypeOnlyChangeIsOnePair ==
    (DiffComputed /\ NoDiffFlag) =>
        \A i \in 1..Len(LocsDiff) :
            LET As == RemarksAAt(i)
                Bs == RemarksBAt(i)
                Pairs == HeaderPairs(As, Bs)
                Ds == LocsDiff[i].HasTheSameHeader
            IN  /\ (/\ Len(As) = 1 /\ Len(Bs) = 1
                    /\ hasSameHeader(As[1], Bs[1])
                    /\ ArgsEq(As[1].Args, Bs[1].Args)
                    /\ As[1].RemarkType # Bs[1].RemarkType) =>
                      /\ Len(Ds) = 1
                      /\ Ds[1].BaseRemark = As[1]
                      /\ Ds[1].RemarkTypeDiff
                            = Some(<<As[1].RemarkType, Bs[1].RemarkType>>)
                      /\ Ds[1].OnlyA = <<>> /\ Ds[1].OnlyB = <<>>
                      /\ LocsDiff[i].OnlyA = <<>> /\ LocsDiff[i].OnlyB = <<>>
                /\ Len(Ds) = Len(Pairs)
                /\ \A j \in 1..Len(Ds) :
                      /\ Ds[j].BaseRemark = Pairs[j][1]
                      /\ has_value(Ds[j].RemarkTypeDiff)
                            <=> Pairs[j][1].RemarkType # Pairs[j][2].RemarkType

C11_Witness ==
    /\ DiffComputed /\ NoDiffFlag
    /\ ValueOf(StreamA).Remarks = <<D1>>
    /\ ValueOf(StreamB).Remarks = <<D3>>
    /\ Len(LocsDiff) = 1
    /\ Len(LocsDiff[1].HasTheSameHeader) = 1
    /\ LocsDiff[1].HasTheSameHeader[1].RemarkTypeDiff = Some(<<"Passed", "Missed">>)
    /\ LocsDiff[1].OnlyA = <<>> /\ LocsDiff[1].OnlyB = <<>>

\* R is one of the two remarks of a pair the header-match pass collected
InSomePair(R, Pairs) ==
    \E j \in 1..Len(Pairs) : RemarkInfoEq(Pairs[j][1], R) \/ RemarkInfoEq(Pairs[j][2], R)

\* R is the base remark of a reported DiffAtRemark
IsBaseRemark(R, Ds) == \E j \in 1..Len(Ds) : RemarkInfoEq(Ds[j].BaseRemark, R)

\* R is listed in the sequence of remarks
Listed(R, Rs) == \E j \in 1..Len(Rs) : RemarkInfoEq(Rs[j], R)

\* no remark of Others equals R or has R's header
Unmatched(R, Others) ==
    \A j \in 1..Len(Others) : ~RemarkInfoEq(R, Others[j]) /\ ~hasSameHeader(R, Others[j])

\* C12: without only-show-common-remarks, a remark of A at a location where B
\* has no remark that equals it or shares its header is listed in the
\* location's OnlyA and is in no pair; the same for a remark of B and OnlyB.
C12_UnmatchedRemarkIsListed ==
    (DiffComputed /\ ~DOpt.OnlyShowCommonRemarks) =>
        \A i \in 1..Len(LocsDiff) :
            LET As == RemarksAAt(i)
                Bs == RemarksBAt(i)
                Pairs == HeaderPairs(As, Bs)
                Ds == LocsDiff[i].HasTheSameHeader
            IN  /\ \A k \in 1..Len(As) :
                      Unmatched(As[k], Bs) =>
                          /\ Listed(As[k], LocsDiff[i].OnlyA)
                          /\ ~InSomePair(As[k], Pairs)
                          /\ ~IsBaseRemark(As[k], Ds)
                /\ \A k \in 1..Len(Bs) :
                      Unmatched(Bs[k], As) =>
                          /\ Listed(Bs[k], LocsDiff[i].OnlyB)
                          /\ ~InSomePair(Bs[k], Pairs)
                          /\ ~IsBaseRemark(Bs[k], Ds)

C12_Witness ==
    /\ DiffComputed /\ NoDiffFlag
    /\ ValueOf(StreamA).Remarks = <<D4, D1>>
    /\ ValueOf(StreamB).Remarks = <<D2>>
    /\ Len(LocsDiff) = 1
    /\ LocsDiff[1].OnlyA = <<RemarkInfo(D4)>>
    /\ LocsDiff[1].OnlyB = <<>>
    /\ Len(LocsDiff[1].HasTheSameHeader) = 1

\* the step is a call of collect on a remark that has no location
CollectsRemarkWithoutLoc ==
    /\ CountRan
    /\ cpc = "collect"
    /\ cpos <= Len(CBuf.Remarks)
    /\ cpos' = cpos + 1
    /\ filterRemark(ValueOf(CFilter), CBuf.Remarks[cpos])
    /\ ~has_value(CBuf.Remarks[cpos].Loc)

\* the group key collect gives a remark without location when grouping does
\* not need one
KeyWithoutLoc(Remark) ==
    IF COpt.GroupByOpt = "TOTAL" THEN sTotal ELSE Remark.FunctionName

\* C13: collecting a remark without location changes nothing in the counter
\* when grouping is per source or per function with location, for both
\* counters; when grouping is total or per function the remark gets its group
\* key and is counted: the existence count of its group goes up by one, the
\* key counter has a row for its group.
C13_NoLocationNoGroup ==
    [][CollectsRemarkWithoutLoc =>
         IF COpt.GroupByOpt \in {"PER_SOURCE", "PER_FUNCTION_WITH_DEBUG_LOC"}
         THEN /\ CountedByRemarksMap' = CountedByRemarksMap
              /\ CountByKeysMap' = CountByKeysMap
              /\ KeySetIdxMap' = KeySetIdxMap
         ELSE LET g == KeyWithoutLoc(CBuf.Remarks[cpos])
              IN  IF COpt.CountByOpt = "REMARK"
                  THEN /\ g \in DOMAIN CountedByRemarksMap'
                       /\ CountedByRemarksMap'[g] =
                             (IF g \in DOMAIN CountedByRemarksMap
                              THEN CountedByRemarksMap[g] ELSE 0) + 1
                  ELSE /\ g \in DOMAIN CountByKeysMap'
                       /\ \A i \in 1..Len(KeySetIdxMap) :
                             CountByKeysMap'[g][KeySetIdxMap[i].Idx + 1] =
                                (IF g \in DOMAIN CountByKeysMap
                                 THEN CountByKeysMap[g][KeySetIdxMap[i].Idx + 1]
                                 ELSE 0)
                                + getValForKey(KeySetIdxMap[i].Key, CBuf.Remarks[cpos])
    ]_vars

\* a remark without location has gone through collect under per-source
\* grouping after a remark with location was counted, and the aggregate holds
\* the first remark's group only
C13_Witness ==
    /\ CountRan
    /\ cpc = "collect"
    /\ COpt.GroupByOpt = "PER_SOURCE"
    /\ COpt.CountByOpt = "KEYS"
    /\ COpt.Filter = NoFilterOpts
    /\ CBuf.Remarks = <<CR1, CR3>>
    /\ cpos = 3
    /\ DOMAIN CountByKeysMap = {sB}

\* the regular expressions the configuration of `count` makes the program
\* use: the -r options of the filter whose literal option is not given, and
\* the --rkeys of the key counter when no literal key is given
ConfiguredPatterns(o) ==
    (IF o.Filter.RemarkNameOpt = sEmpty /\ o.Filter.RemarkNameOptRE # sEmpty
     THEN {o.Filter.RemarkNameOptRE} ELSE {})
    \cup (IF o.Filter.PassNameOpt = sEmpty /\ o.Filter.PassNameOptRE # sEmpty
          THEN {o.Filter.PassNameOptRE} ELSE {})
    \cup (IF o.Filter.RemarkFilterArgByOpt = sEmpty /\ o.Filter.RemarkArgFilterOptRE # sEmpty
          THEN {o.Filter.RemarkArgFilterOptRE} ELSE {})
    \cup (IF o.CountByOpt = "KEYS" /\ o.Keys = <<>> THEN Range(o.RKeys) ELSE {})

SomePatternMalformed == \E p \in ConfiguredPatterns(COpt) : ~RegexIsValid(p)

RECURSIVE Bucketed(_)
Bucketed(MV) == IF MV = <<>> THEN <<>> ELSE MV[1].Val \o Bucketed(Tail(MV))

\* C15: every remark in a location bucket of the diff is accepted by the
\* filter that the whole set of filter options describes: name, pass, outcome
\* type and argument value.
C15_BucketsHoldAcceptedRemarks ==
    (has_value(dopt) /\ has_value(getRemarkFilter(DOpt.Filter))) =>
        \A R \in Range(Bucketed(DebugLoc2RemarkA)) \cup Range(Bucketed(DebugLoc2RemarkB)) :
            filterRemark(ValueOf(getRemarkFilter(DOpt.Filter)), R)

\* two remarks that differ only in the locations attached to their arguments
DifferInArgLocOnly(ra, rb) ==
    /\ DebugLocOf(ra) = DebugLocOf(rb)
    /\ RemarkInfoEq(RemarkInfo(ra), RemarkInfo(rb))
    /\ \E k \in 1..Len(ra.Args) : ra.Args[k].Loc # rb.Args[k].Loc

\* the diff of the location of remark r
DiffAtLocOf(r) ==
    LocsDiff[CHOOSE i \in 1..Len(LocsDiff) : LocsDiff[i].Loc = DebugLocOf(r)]

\* C16: for a remark of A and a remark of B at the same location that differ
\* only in the locations attached to their arguments: with use-strict-compare
\* the two are not an exact match, and the pair is reported with the arguments
\* in its OnlyA and OnlyB lists; without it the two are equal and no pair is
\* reported for them.
C16_StrictCompareSeesArgLocations ==
    DiffComputed =>
        \A ra \in Range(ValueOf(StreamA).Remarks), rb \in Range(ValueOf(StreamB).Remarks) :
            DifferInArgLocOnly(ra, rb) =>
                LET Ds == DiffAtLocOf(ra).HasTheSameHeader
                IN  IF DOpt.StrictCompare
                    THEN \E j \in 1..Len(Ds) :
                            /\ RemarkInfoEq(Ds[j].BaseRemark, RemarkInfo(ra))
                            /\ Ds[j].OnlyA # <<>> /\ Ds[j].OnlyB # <<>>
                    ELSE ~IsBaseRemark(RemarkInfo(ra), Ds)

\* the diff computeDiffAtLoc gives at the i-th location under the options o
DiffAtLocUnder(i, o) == computeDiffAtLoc(RemarksAAt(i), RemarksBAt(i), LocsDiff[i].Loc, o)

\* C17: with only-show-common-remarks, OnlyA and OnlyB are empty at every
\* location, and the pairs of every location are those computed from the same
\* remarks with the flag unset.
C17_OnlyCommonListsNoUnmatched ==
    (DiffComputed /\ DOpt.OnlyShowCommonRemarks) =>
        \A i \in 1..Len(LocsDiff) :
            /\ LocsDiff[i].OnlyA = <<>>
            /\ LocsDiff[i].OnlyB = <<>>
            /\ LocsDiff[i].HasTheSameHeader =
                  DiffAtLocUnder(i, [DOpt EXCEPT !.OnlyShowCommonRemarks = FALSE]).HasTheSameHeader

C17_Witness ==
    /\ DiffComputed
    /\ DOpt.OnlyShowCommonRemarks /\ ~DOpt.ShowOnlyDifferentRemarks
    /\ ValueOf(StreamA).Remarks = <<D4, D1>>
    /\ ValueOf(StreamB).Remarks = <<D2>>
    /\ Len(LocsDiff) = 1
    /\ LocsDiff[1].OnlyA = <<>>
    /\ Len(LocsDiff[1].HasTheSameHeader) = 1
    /\ DiffAtLocUnder(1, [DOpt EXCEPT !.OnlyShowCommonRemarks = FALSE]).OnlyA
          = <<RemarkInfo(D4)>>

\* C18: with only-show-different-remarks no pair is reported at any location,
\* OnlyA and OnlyB are what they are with the flag unset, and the remarks the
\* header-match pass paired are in neither of them.
C18_OnlyDifferentReportsNoPair ==
    (DiffComputed /\ DOpt.ShowOnlyDifferentRemarks) =>
        \A i \in 1..Len(LocsDiff) :
            LET Unset == DiffAtLocUnder(i, [DOpt EXCEPT !.ShowOnlyDifferentRemarks = FALSE])
                Pairs == HeaderPairs(RemarksAAt(i), RemarksBAt(i))
            IN  /\ LocsDiff[i].HasTheSameHeader = <<>>
                /\ LocsDiff[i].OnlyA = Unset.OnlyA
                /\ LocsDiff[i].OnlyB = Unset.OnlyB
                /\ \A j \in 1..Len(Pairs) :
                      /\ ~Listed(Pairs[j][1], LocsDiff[i].OnlyA)
                      /\ ~Listed(Pairs[j][2], LocsDiff[i].OnlyB)

C18_Witness ==
    /\ DiffComputed
    /\ DOpt.ShowOnlyDifferentRemarks /\ ~DOpt.OnlyShowCommonRemarks
    /\ ValueOf(StreamA).Remarks = <<D4, D1>>
    /\ ValueOf(StreamB).Remarks = <<D2>>
    /\ Len(LocsDiff) = 1
    /\ LocsDiff[1].HasTheSameHeader = <<>>
    /\ LocsDiff[1].OnlyA = <<RemarkInfo(D4)>>
    /\ LocsDiff[1].OnlyB = <<>>
    /\ Len(HeaderPairs(RemarksAAt(1), RemarksBAt(1))) = 1

\* R has a full structural equal among Others
HasEqualIn(R, Others) == \E j \in 1..Len(Others) : RemarkInfoEq(R, Others[j])

\* C19: at every location no remark of OnlyA equals a remark of OnlyB, no
\* remark of OnlyA or OnlyB is a member of a pair, and a remark with a full
\* structural equal in the other file at the location is in neither OnlyA nor
\* OnlyB nor a pair.
C19_GroupsAreDisjoint ==
    DiffComputed =>
        \A i \in 1..Len(LocsDiff) :
            LET As == RemarksAAt(i)
                Bs == RemarksBAt(i)
                Pairs == HeaderPairs(As, Bs)
                D == LocsDiff[i]
                InNoGroup(R) ==
                    /\ ~Listed(R, D.OnlyA) /\ ~Listed(R, D.OnlyB)
                    /\ ~InSomePair(R, Pairs) /\ ~IsBaseRemark(R, D.HasTheSameHeader)
            IN  /\ \A x \in Range(D.OnlyA), y \in Range(D.OnlyB) : ~RemarkInfoEq(x, y)
                /\ \A x \in Range(D.OnlyA) \cup Range(D.OnlyB) :
                      ~InSomePair(x, Pairs) /\ ~IsBaseRemark(x, D.HasTheSameHeader)
                /\ \A k \in 1..Len(As) : HasEqualIn(As[k], Bs) => InNoGroup(As[k])
                /\ \A k \in 1..Len(Bs) : HasEqualIn(Bs[k], As) => InNoGroup(Bs[k])

C19_Witness ==
    /\ DiffComputed /\ NoDiffFlag
    /\ ValueOf(StreamA).Remarks = <<D1, D4>>
    /\ ValueOf(StreamB).Remarks = <<D1, D2>>
    /\ Len(LocsDiff) = 1
    /\ LocsDiff[1].OnlyA = <<RemarkInfo(D4)>>
    /\ LocsDiff[1].OnlyB = <<RemarkInfo(D2)>>
    /\ LocsDiff[1].HasTheSameHeader = <<>>

\* the keys of the universe in the order of their indices
UniverseInIndexOrder == [i \in 1..Len(KeySetIdxMap) |-> KeySetIdxMap[i].Key]

\* C20: in a run of the key counter every step keeps the two passes apart:
\* the universe changes only in the discovery pass and the sums only in the
\* accumulation pass; the accumulation pass starts only after the discovery
\* pass has gone through the whole stream and met its end, with no sum yet
\* made; a discovery pass that meets a parse error ends the run with that
\* error and without report; a collect step leaves every key and index as it
\* was, and the report's header lists the keys of the universe as discovery
\* left them.
C20_DiscoveryThenAccumulation ==
    [][(has_value(copt) /\ COpt.CountByOpt = "KEYS") =>
         /\ KeySetIdxMap' # KeySetIdxMap => cpc = "discover" /\ cpc' = "discover"
         /\ CountByKeysMap' # CountByKeysMap => cpc = "collect" /\ cpc' = "collect"
         /\ cpc = "collect" => KeySetIdxMap' = KeySetIdxMap
         /\ (cpc = "discover" /\ cpc' = "collect") =>
               /\ cpos > Len(CBuf.Remarks)
               /\ CBuf.End = "EndOfFile"
               /\ cpos' = 1
               /\ CountByKeysMap = EmptyMap
         /\ cpc' = "collect" => cpc \in {"discover", "collect"}
         /\ (cpc = "discover" /\ cpc' = "done") =>
               /\ cret' = Some("StreamParseFailure")
               /\ COut' = None
               /\ CountByKeysMap' = EmptyMap
         /\ (has_value(COut') /\ ~has_value(COut)) =>
               /\ Tail(ValueOf(COut').Header) = UniverseInIndexOrder
               /\ \A i \in 1..Len(ValueOf(COut').Rows) :
                     Len(ValueOf(COut').Rows[i][2]) = Len(KeySetIdxMap)
    ]_vars

C20_Witness ==
    /\ CountRan
    /\ COpt.CountByOpt = "KEYS"
    /\ COpt.GroupByOpt = "TOTAL"
    /\ cpc = "done" /\ cret = Some("Success")
    /\ CBuf.Remarks = <<CR1, CR3>>
    /\ KeySetIdxMap = <<[Key |-> sK, Idx |-> 0], [Key |-> sJ, Idx |-> 1]>>
    /\ CountByKeysMap = (sTotal :> <<2, 5>>)
    /\ has_value(COut)
    /\ Tail(ValueOf(COut).Header) = <<sK, sJ>>

\* FoundRemarks and HasSameHeader when the header-match pass reaches the k-th
\* remark of A
BeforeOuter(As, Bs, k) ==
    HeaderLoopA(SubSeq(As, 1, k - 1), Bs, <<ExactMatches(As, Bs), <<>>>>)

\* the header-match pass pairs the k-th remark of A with the j-th remark of B
PairedAt(As, Bs, k, j) ==
    LET Sk == BeforeOuter(As, Bs, k)
        Skj == HeaderLoopB(As[k], SubSeq(Bs, 1, j - 1), Sk)
    IN  /\ ~Contains(Sk[1], As[k])
        /\ ~Contains(Skj[1], Bs[j])
        /\ hasSameHeader(As[k], Bs[j])

\* the occurrences of A, and of B, with no full equal in the other file that
\* the header-match pass put in no pair
UnmatchedOccurrencesA(As, Bs) ==
    {k \in 1..Len(As) :
        /\ ~HasEqualIn(As[k], Bs)
        /\ \A j \in 1..Len(Bs) : ~PairedAt(As, Bs, k, j)}
UnmatchedOccurrencesB(As, Bs) ==
    {j \in 1..Len(Bs) :
        /\ ~HasEqualIn(Bs[j], As)
        /\ \A k \in 1..Len(As) : ~PairedAt(As, Bs, k, j)}

\* the number of entries of Rs equal to R
CopiesIn(R, Rs) == Cardinality({n \in 1..Len(Rs) : RemarkInfoEq(Rs[n], R)})

\* C21: without only-show-common-remarks every occurrence of a remark of A
\* that has no full equal in B at the location and was not itself put in a
\* pair is listed in OnlyA, one entry per such occurrence, also when another
\* copy of the remark was put in a pair; the same for B and OnlyB.
C21_FoundMarkingIsPerOccurrence ==
    (DiffComputed /\ ~DOpt.OnlyShowCommonRemarks) =>
        \A i \in 1..Len(LocsDiff) :
            LET As == RemarksAAt(i)
                Bs == RemarksBAt(i)
                UA == UnmatchedOccurrencesA(As, Bs)
                UB == UnmatchedOccurrencesB(As, Bs)
            IN  /\ \A k \in UA :
                      CopiesIn(As[k], LocsDiff[i].OnlyA)
                          >= Cardinality({n \in UA : RemarkInfoEq(As[n], As[k])})
                /\ \A j \in UB :
                      CopiesIn(Bs[j], LocsDiff[i].OnlyB)
                          >= Cardinality({n \in UB : RemarkInfoEq(Bs[n], Bs[j])})

\* C22: every DiffAtRemark of every location records a difference: it has a
\* RemarkTypeDiff, or its OnlyA or its OnlyB argument list is not empty; and
\* the header-match pass never pairs two remarks that are equal in type and
\* in every argument.
C22_PairRecordsADifference ==
    DiffComputed =>
        \A i \in 1..Len(LocsDiff) :
            LET Ds == LocsDiff[i].HasTheSameHeader
                Pairs == HeaderPairs(RemarksAAt(i), RemarksBAt(i))
            IN  /\ \A j \in 1..Len(Ds) :
                      \/ has_value(Ds[j].RemarkTypeDiff)
                      \/ Ds[j].OnlyA # <<>>
                      \/ Ds[j].OnlyB # <<>>
                /\ \A j \in 1..Len(Pairs) : ~RemarkInfoEq(Pairs[j][1], Pairs[j][2])

C22_Witness ==
    /\ DiffComputed /\ NoDiffFlag
    /\ ValueOf(StreamA).Remarks = <<D1, D3>>
    /\ ValueOf(StreamB).Remarks = <<D1, D2>>
    /\ Len(LocsDiff) = 1
    /\ Len(LocsDiff[1].HasTheSameHeader) = 1
    /\ LocsDiff[1].HasTheSameHeader[1].BaseRemark = RemarkInfo(D3)
    /\ LocsDiff[1].HasTheSameHeader[1].RemarkTypeDiff = Some(<<"Missed", "Passed">>)
    /\ LocsDiff[1].HasTheSameHeader[1].OnlyA = <<RemarkArgInfo(sB, s2)>>
    /\ LocsDiff[1].HasTheSameHeader[1].OnlyB = <<RemarkArgInfo(sB, s3)>>

\* the keys of the integer arguments of the remark that the matcher matches,
\* in argument order
RECURSIVE MatchedIntKeys(_, _)
MatchedIntKeys(m, Args) ==
    IF Args = <<>> THEN <<>>
    ELSE (IF match(m, Args[1].Key) /\ isValInt(Args[1]) THEN <<Args[1].Key>> ELSE <<>>)
         \o MatchedIntKeys(m, Tail(Args))

\* the same for every matcher in turn
RECURSIVE CandidateKeys(_, _)
CandidateKeys(Ms, Remark) ==
    IF Ms = <<>> THEN <<>>
    ELSE MatchedIntKeys(Ms[1], Remark.Args) \o CandidateKeys(Tail(Ms), Remark)

\* the candidate keys of the accepted remarks, in stream order
RECURSIVE CandidateKeysOfStream(_)
CandidateKeysOfStream(Remarks) ==
    IF Remarks = <<>> THEN <<>>
    ELSE (IF filterRemark(ValueOf(CFilter), Remarks[1])
          THEN CandidateKeys(KeysVector(COpt), Remarks[1]) ELSE <<>>)
         \o CandidateKeysOfStream(Tail(Remarks))

\* a sequence without its repeated entries, each kept where it first occurs
RECURSIVE FirstOccurrences(_, _)
FirstOccurrences(s, Seen) ==
    IF s = <<>> THEN Seen
    ELSE FirstOccurrences(Tail(s),
            IF s[1] \in Range(Seen) THEN Seen ELSE Append(Seen, s[1]))

\* the remarks the discovery pass has gone through
Scanned ==
    IF cpc = "discover" THEN SubSeq(CBuf.Remarks, 1, cpos - 1) ELSE CBuf.Remarks

\* the counted remarks of group g carry no integer argument with a key of the
\* universe
GroupCarriesNoKey(g) ==
    \A i \in CountedIn(g) :
        \A a \in Range(Collected[i].Args) : ~(isValInt(a) /\ a.Key \in UniverseKeys)

\* C23: in the key counter the universe of n keys gives the indices 0..n-1,
\* one key each, in the order in which the discovery pass first met the keys;
\* every group's row has length n, so every index of the universe is inside
\* every row; and the group of a counted remark has a row, which is all zeros
\* when the group's remarks carry none of the universe's keys.
C23_IndicesAndRowsAgree ==
    (CountRan /\ COpt.CountByOpt = "KEYS"
       /\ (cpc = "discover" \/ Discovered)) =>
        /\ \A i \in 1..Len(KeySetIdxMap) : KeySetIdxMap[i].Idx = i - 1
        /\ \A i, j \in 1..Len(KeySetIdxMap) :
              KeySetIdxMap[i].Key = KeySetIdxMap[j].Key => i = j
        /\ UniverseInIndexOrder = FirstOccurrences(CandidateKeysOfStream(Scanned), <<>>)
        /\ \A g \in DOMAIN CountByKeysMap :
              /\ Len(CountByKeysMap[g]) = Len(KeySetIdxMap)
              /\ \A i \in 1..Len(KeySetIdxMap) :
                    KeySetIdxMap[i].Idx + 1 \in DOMAIN CountByKeysMap[g]
        /\ Discovered =>
              \A i \in Counted :
                  LET g == ValueOf(getGroupByKey(COpt.GroupByOpt, Collected[i]))
                  IN  /\ g \in DOMAIN CountByKeysMap
                      /\ GroupCarriesNoKey(g) =>
                            \A n \in 1..Len(CountByKeysMap[g]) : CountByKeysMap[g][n] = 0

C23_Witness ==
    /\ CountRan /\ Discovered
    /\ COpt.GroupByOpt = "PER_FUNCTION"
    /\ COpt.Filter = NoFilterOpts
    /\ COpt.Keys = <<>> /\ COpt.RKeys = <<sJ, sK>>
    /\ CBuf.Remarks = <<CR2, CR5>>
    /\ cpc = "done" /\ cret = Some("Success")
    /\ KeySetIdxMap = <<[Key |-> sK, Idx |-> 0]>>
    /\ CountByKeysMap = (sF :> <<3>>) @@ (sG :> <<0>>)

====
